---- MODULE Spec2Model ----
(***************************************************************************)
(* The rule engine of src/analyzer.py: analyze_openapi_spec walks a parsed  *)
(* OpenAPI document (a JSON-like tree) and appends findings to a list.      *)
(* Its two callers fetch the bytes first: analyze_openapi_url (one URL) and *)
(* analyze_repository_openapi (the candidate files of a repository).        *)
(*                                                                          *)
(* A document value is a tagged record, one shape per Python type:          *)
(*   [t |-> "none"]             None                                        *)
(*   [t |-> "bool", b |-> ..]   bool                                        *)
(*   [t |-> "int",  n |-> ..]   int                                         *)
(*   [t |-> "str",  s |-> ..]   str  (a TLA+ string, read per character)    *)
(*   [t |-> "list", l |-> ..]   list (a sequence of values)                 *)
(*   [t |-> "dict", m |-> ..]   dict (a sequence of [k, v] entries, in      *)
(*                              insertion order, keys distinct)             *)
(* A Python exception escaping a check is the string naming its class.      *)
(***************************************************************************)
EXTENDS Integers, Sequences, FiniteSets, TLC

VARIABLES
    spec,                \* the document passed to analyze_openapi_spec
    given,               \* the document as it was when the call was made
    validator,           \* what openapi_spec_validator does in this environment
    pc,                  \* position inside analyze_openapi_spec
    suggestions,         \* the local list of findings
    operations_count,    \* the local counter
    seen_operation_ids,  \* the local set of operationIds met so far
    result,              \* what the call returned (or the exception it raised)
    log,                 \* the completed calls, oldest first: [doc, result]
    resp,                \* what requests.get answered for the document
    repo_info,           \* analyze_repository_openapi: get_repository_info(...)
    openapi_files,       \* analyze_repository_openapi: the candidate files
    file_index,          \* the place of file_info in openapi_files (0: no loop)
    analysis_results,    \* analyze_repository_openapi: the output list
    repo_result          \* what analyze_repository_openapi returned

\* the state of the caller that fetches the documents
caller == <<resp, repo_info, openapi_files, file_index, analysis_results,
            repo_result>>

vars == <<spec, given, validator, pc, suggestions, operations_count,
          seen_operation_ids, result, log, caller>>

(***************************************************************************)
(* Bounds of the model.                                                     *)
(***************************************************************************)
MaxEntries == 3
MaxRequired == 2
MaxCalls == 3
MaxFiles == 2
MaxParams == 3

(***************************************************************************)
(* Values.                                                                  *)
(***************************************************************************)
None == [t |-> "none"]
B(b) == [t |-> "bool", b |-> b]
I(n) == [t |-> "int", n |-> n]
S(s) == [t |-> "str", s |-> s]
L(l) == [t |-> "list", l |-> l]
D(m) == [t |-> "dict", m |-> m]
E(k, v) == [k |-> S(k), v |-> v]

EmptyDict == D(<<>>)
EmptyList == L(<<>>)
EmptyStr == S("")

IsDict(v) == v.t = "dict"
IsList(v) == v.t = "list"
IsStr(v) == v.t = "str"

\* bool(v)
Truthy(v) ==
    CASE v.t = "none" -> FALSE
      [] v.t = "bool" -> v.b
      [] v.t = "int"  -> v.n # 0
      [] v.t = "str"  -> Len(v.s) > 0
      [] v.t = "list" -> Len(v.l) > 0
      [] v.t = "dict" -> Len(v.m) > 0

\* hash(v) succeeds
Hashable(v) == v.t \notin {"list", "dict"}

\* k in d, for a dict d
HasKey(d, k) == \E i \in 1..Len(d.m) : d.m[i].k = k

\* d.get(k, default), for a dict d
Get(d, k, default) ==
    IF HasKey(d, k)
    THEN d.m[CHOOSE i \in 1..Len(d.m) : d.m[i].k = k].v
    ELSE default

\* d.get(k)
GetN(d, k) == Get(d, k, None)

\* list(d.keys())
Keys(d) == [i \in 1..Len(d.m) |-> d.m[i].k]

(***************************************************************************)
(* Strings.                                                                 *)
(***************************************************************************)
UpperAlpha == "ABCDEFGHIJKLMNOPQRSTUVWXYZ"
LowerAlpha == "abcdefghijklmnopqrstuvwxyz"
DigitChars == "0123456789"

Ch(s, i) == SubSeq(s, i, i)

InChars(c, alphabet) == \E i \in 1..Len(alphabet) : Ch(alphabet, i) = c

Translate(c, from, to) ==
    IF InChars(c, from)
    THEN Ch(to, CHOOSE i \in 1..Len(from) : Ch(from, i) = c)
    ELSE c

RECURSIVE MapChars(_, _, _)
MapChars(s, from, to) ==
    IF Len(s) = 0 THEN ""
    ELSE Translate(Ch(s, 1), from, to) \o MapChars(SubSeq(s, 2, Len(s)), from, to)

\* s.lower(), s.upper()
Lower(s) == MapChars(s, UpperAlpha, LowerAlpha)
Upper(s) == MapChars(s, LowerAlpha, UpperAlpha)

\* s.startswith(p), s.endswith(p)
StartsWith(s, p) == Len(s) >= Len(p) /\ SubSeq(s, 1, Len(p)) = p
EndsWith(s, p) == Len(s) >= Len(p) /\ SubSeq(s, Len(s) - Len(p) + 1, Len(s)) = p

\* sub in s
SubStr(sub, s) ==
    \E i \in 1..(Len(s) - Len(sub) + 1) : SubSeq(s, i, i + Len(sub) - 1) = sub

\* s.split(sep)[-1], for a one-character sep
LastSegment(s, sep) ==
    LET cuts == {i \in 1..Len(s) : Ch(s, i) = sep}
        last == IF cuts = {} THEN 0 ELSE CHOOSE i \in cuts : \A j \in cuts : j <= i
    IN  SubSeq(s, last + 1, Len(s))

\* s.replace(c, ""), for a one-character c
RECURSIVE Remove(_, _)
Remove(s, c) ==
    IF Len(s) = 0 THEN ""
    ELSE (IF Ch(s, 1) = c THEN "" ELSE Ch(s, 1)) \o Remove(SubSeq(s, 2, Len(s)), c)

\* s.isalnum(), for ASCII text
IsAlnum(s) ==
    /\ Len(s) > 0
    /\ \A i \in 1..Len(s) :
          InChars(Ch(s, i), UpperAlpha \o LowerAlpha \o DigitChars)

\* re.findall(r'\{([^}]+)\}', s): scanning from position i
RECURSIVE FindBraced(_, _)
FindBraced(s, i) ==
    IF i > Len(s) THEN <<>>
    ELSE IF Ch(s, i) # "{" THEN FindBraced(s, i + 1)
    ELSE LET closes == {j \in (i + 1)..Len(s) : Ch(s, j) = "}"}
             j == IF closes = {} THEN 0
                  ELSE CHOOSE x \in closes : \A y \in closes : x <= y
         IN  IF j > i + 1
             THEN <<SubSeq(s, i + 1, j - 1)>> \o FindBraced(s, j + 1)
             ELSE FindBraced(s, i + 1)

\* str(n), for n >= 0
RECURSIVE IntStr(_)
IntStr(n) ==
    IF n < 10 THEN Ch(DigitChars, n + 1)
    ELSE IntStr(n \div 10) \o Ch(DigitChars, (n % 10) + 1)

\* repr(v) and str(v), as an f-string renders a value
RECURSIVE Repr(_)
RECURSIVE JoinRepr(_, _)
RECURSIVE JoinItems(_, _)
Repr(v) ==
    CASE v.t = "none" -> "None"
      [] v.t = "bool" -> IF v.b THEN "True" ELSE "False"
      [] v.t = "int"  -> IntStr(v.n)
      [] v.t = "str"  -> "'" \o v.s \o "'"
      [] v.t = "list" -> "[" \o JoinRepr(v.l, 1) \o "]"
      [] v.t = "dict" -> "{" \o JoinItems(v.m, 1) \o "}"
JoinRepr(l, i) ==
    IF i > Len(l) THEN ""
    ELSE Repr(l[i]) \o (IF i < Len(l) THEN ", " ELSE "") \o JoinRepr(l, i + 1)
JoinItems(m, i) ==
    IF i > Len(m) THEN ""
    ELSE Repr(m[i].k) \o ": " \o Repr(m[i].v)
         \o (IF i < Len(m) THEN ", " ELSE "") \o JoinItems(m, i + 1)

Str(v) == IF v.t = "str" THEN v.s ELSE Repr(v)

(***************************************************************************)
(* Containers, with the exceptions Python raises on the wrong type.         *)
(***************************************************************************)
\* whether "x in c" raises TypeError
InRaises(x, c) ==
    CASE c.t = "str"  -> x.t # "str"
      [] c.t = "list" -> FALSE
      [] c.t = "dict" -> ~Hashable(x)
      [] OTHER        -> TRUE

\* x in c, where it does not raise
In(x, c) ==
    CASE c.t = "str"  -> SubStr(x.s, c.s)
      [] c.t = "list" -> \E i \in 1..Len(c.l) : c.l[i] = x
      [] c.t = "dict" -> HasKey(c, x)
      [] OTHER        -> FALSE

\* whether "for x in c" raises TypeError
IterRaises(c) == c.t \notin {"str", "list", "dict"}

\* the values "for x in c" yields
Iter(c) ==
    CASE c.t = "str"  -> [i \in 1..Len(c.s) |-> S(Ch(c.s, i))]
      [] c.t = "list" -> c.l
      [] c.t = "dict" -> Keys(c)
      [] OTHER        -> <<>>

\* the number of places of sequence s holding x
Count(s, x) == Cardinality({i \in 1..Len(s) : s[i] = x})

(***************************************************************************)
(* The outcome of a check: the list of findings, or the exception raised.   *)
(***************************************************************************)
Ok(sugg) == [exc |-> "", sugg |-> sugg]
Raise(e) == [exc |-> e, sugg |-> <<>>]
When(cond, text) == IF cond THEN <<text>> ELSE <<>>

Join(a, b) ==
    IF a.exc # "" THEN a
    ELSE IF b.exc # "" THEN b
    ELSE Ok(a.sugg \o b.sugg)

\* a loop whose body appends Check(item) for every item, unless one raises
RECURSIVE Each(_, _, _, _)
Each(Check(_), items, i, acc) ==
    IF acc.exc # "" \/ i > Len(items) THEN acc
    ELSE Each(Check, items, i + 1, Join(acc, Check(items[i])))

(***************************************************************************)
(* The structural validator (an external library).                          *)
(***************************************************************************)
ValidatorOutcomes == {"valid", "not_importable", "invalid"}

_validate_with_openapi_spec_validator(env) ==
    CASE env = "valid"          -> <<>>
      [] env = "not_importable" ->
            <<"Could not import openapi-spec-validator, skipping validation.">>
      [] env = "invalid"        -> <<"Spec validation: invalid document">>

(***************************************************************************)
(* The locals read off the document.                                        *)
(***************************************************************************)
\* the document after the lookups of the call: .get() leaves a dict as it is
SpecAfterSetdefault(doc) ==
    IF HasKey(doc, S("paths")) THEN doc ELSE D(doc.m \o <<E("paths", EmptyDict)>>)
SpecAfterLookups(doc) == doc

\* line 271 without its fall-back to the swagger key
OpenapiVersionOnly(doc) == GetN(doc, S("openapi"))
\* line 271
OpenapiVersion(doc) ==
    IF Truthy(GetN(doc, S("openapi"))) THEN GetN(doc, S("openapi"))
    ELSE GetN(doc, S("swagger"))

Paths(doc) ==
    IF Truthy(GetN(doc, S("paths"))) THEN GetN(doc, S("paths")) ELSE EmptyDict

Components(doc) == Get(doc, S("components"), EmptyDict)

Schemas(doc) ==
    IF IsDict(Components(doc))
    THEN Get(Components(doc), S("schemas"), EmptyDict)
    ELSE EmptyDict

(***************************************************************************)
(* Metadata.                                                                *)
(***************************************************************************)
MissingTitle == "Spec is missing an API title."
MissingDescription == "Spec should include a description."
MissingVersion == "Spec should define an API version."

MetadataElif(doc) ==
    LET info == Get(doc, S("info"), EmptyDict)
    IN  IF ~IsDict(info) THEN Raise("AttributeError")
        ELSE Ok(IF ~Truthy(GetN(info, S("title"))) THEN <<MissingTitle>>
                ELSE IF ~Truthy(GetN(info, S("description"))) THEN <<MissingDescription>>
                ELSE When(~Truthy(GetN(info, S("version"))), MissingVersion))
Metadata(doc) ==
    LET info == Get(doc, S("info"), EmptyDict)
    IN  IF ~IsDict(info) THEN Raise("AttributeError")
        ELSE Ok(When(~Truthy(GetN(info, S("title"))), MissingTitle)
                \o When(~Truthy(GetN(info, S("description"))), MissingDescription)
                \o When(~Truthy(GetN(info, S("version"))), MissingVersion))

(***************************************************************************)
(* Servers.                                                                 *)
(***************************************************************************)
NoServers == "No servers defined. Consider specifying servers for clarity."

ServerFindings(server) ==
    IF ~IsDict(server) THEN Ok(<<>>)
    ELSE LET url_val == GetN(server, S("url"))
         IN  IF ~Truthy(url_val) THEN Ok(<<>>)
             ELSE IF InRaises(S("{"), url_val) THEN Raise("TypeError")
             ELSE Ok(When(In(S("{"), url_val),
                          "Server URL '" \o Str(url_val)
                          \o "' uses variables. Document them properly."))

Servers(doc) ==
    LET servers == Get(doc, S("servers"), EmptyList)
    IN  IF ~Truthy(servers) THEN Ok(<<NoServers>>)
        ELSE IF IterRaises(servers) THEN Raise("TypeError")
        ELSE Each(ServerFindings, Iter(servers), 1, Ok(<<>>))

(***************************************************************************)
(* Global security and security schemes.                                    *)
(***************************************************************************)
NoGlobalSecurity ==
    "No global security requirements defined. Consider adding authentication info."
NoSecuritySchemes == "No security schemes defined in components."

SchemeFindings(entry) ==
    LET scheme_name == Str(entry.k)
        scheme_def == entry.v
        scheme_type == GetN(scheme_def, S("type"))
    IN  IF ~IsDict(scheme_def) THEN Ok(<<>>)
        ELSE Ok(
            When(~HasKey(scheme_def, S("type")),
                 "Security scheme '" \o scheme_name \o "' missing type.")
            \o When(~HasKey(scheme_def, S("description")),
                 "Security scheme '" \o scheme_name \o "' missing description.")
            \o (IF scheme_type = S("oauth2")
                THEN When(~HasKey(scheme_def, S("flows")),
                          "OAuth2 security scheme '" \o scheme_name \o "' missing flows.")
                ELSE IF scheme_type = S("apiKey")
                THEN When(~HasKey(scheme_def, S("in")),
                          "API Key security scheme '" \o scheme_name
                          \o "' missing 'in' field.")
                     \o When(~HasKey(scheme_def, S("name")),
                          "API Key security scheme '" \o scheme_name
                          \o "' missing 'name' field.")
                ELSE <<>>))

Security(doc) ==
    LET security == Get(doc, S("security"), EmptyList)
        components == Components(doc)
        security_schemes == Get(components, S("securitySchemes"), EmptyDict)
    IN  IF ~IsDict(components) THEN Raise("AttributeError")
        ELSE Join(Ok(When(~Truthy(security), NoGlobalSecurity)),
                  IF ~IsDict(security_schemes) THEN Ok(<<>>)
                  ELSE IF ~Truthy(security_schemes) THEN Ok(<<NoSecuritySchemes>>)
                  ELSE Each(SchemeFindings, security_schemes.m, 1, Ok(<<>>)))

(***************************************************************************)
(* Path conventions.                                                        *)
(***************************************************************************)
ParamFindings(path, params) ==
    [i \in 1..Len(params) |->
        IF ~IsAlnum(Remove(Remove(params[i], "_"), "-"))
        THEN <<"Path parameter '" \o params[i] \o "' in '" \o path
               \o "' should use alphanumeric characters only.">>
        ELSE <<>>]

RECURSIVE Flatten(_, _)
Flatten(seqs, i) ==
    IF i > Len(seqs) THEN <<>> ELSE seqs[i] \o Flatten(seqs, i + 1)

PathFindings(key) ==
    IF ~IsStr(key) THEN Ok(<<>>)
    ELSE LET path == key.s IN Ok(
        When(path # "/" /\ EndsWith(path, "/"),
             "Path '" \o path \o "' has trailing slash - consider removing for consistency.")
        \o When(SubStr("/", path) /\ ~StartsWith(path, "/"),
             "Path '" \o path \o "' should start with '/'.")
        \o (IF SubStr("{", path) /\ SubStr("}", path)
            THEN Flatten(ParamFindings(path, FindBraced(path, 1)), 1)
            ELSE <<>>))

PathConventions(doc) ==
    LET paths == Paths(doc)
    IN  IF ~IsDict(paths) THEN Raise("AttributeError")
        ELSE Each(PathFindings, Keys(paths), 1, Ok(<<>>))

(***************************************************************************)
(* The operations counter, as first computed.                               *)
(***************************************************************************)
HttpMethods == {"get", "post", "put", "delete", "patch", "options", "head", "trace"}

\* the sum of lines 327-332: [exc, n]
RECURSIVE SumOperations(_, _)
SumOperations(items, i) ==
    IF i > Len(items) THEN [exc |-> "", n |-> 0]
    ELSE LET methods == items[i].v
             rest == SumOperations(items, i + 1)
         IN  IF ~IsDict(methods) THEN rest
             ELSE IF \E j \in 1..Len(methods.m) : ~IsStr(methods.m[j].k)
             THEN [exc |-> "AttributeError", n |-> 0]
             ELSE IF rest.exc # "" THEN rest
             ELSE [exc |-> "",
                   n |-> rest.n + Cardinality({j \in 1..Len(methods.m) :
                                     Lower(methods.m[j].k.s) \in HttpMethods})]


(***************************************************************************)
(* The checks of one operation (lines 346-450).                             *)
(***************************************************************************)
\* f"{method.upper()} {path}"
Label(path, method) == Upper(method.s) \o " " \o Str(path)

DuplicateOperationId(opid) == "Duplicate operationId '" \o Str(opid) \o "' found."

\* lines 346-352: [exc, sugg, seen]
IdentityAddFirst(label, details, seen) ==
    LET opid == GetN(details, S("operationId"))
    IN  IF ~Truthy(opid)
        THEN [exc |-> "", seen |-> seen,
              sugg |-> <<"Operation " \o label \o " missing operationId.">>]
        ELSE IF ~Hashable(opid)
        THEN [exc |-> "TypeError", seen |-> seen, sugg |-> <<>>]
        ELSE [exc |-> "", seen |-> seen \cup {opid},
              sugg |-> When(opid \in (seen \cup {opid}), DuplicateOperationId(opid))]
Identity(label, details, seen) ==
    LET opid == GetN(details, S("operationId"))
    IN  IF ~Truthy(opid)
        THEN [exc |-> "", seen |-> seen,
              sugg |-> <<"Operation " \o label \o " missing operationId.">>]
        ELSE IF ~Hashable(opid)
        THEN [exc |-> "TypeError", seen |-> seen, sugg |-> <<>>]
        ELSE [exc |-> "", seen |-> seen \cup {opid},
              sugg |-> When(opid \in seen, DuplicateOperationId(opid))]

\* lines 354-363
Documentation(label, details) ==
    Ok(When(~Truthy(GetN(details, S("summary"))),
            "Operation " \o label \o " missing summary.")
       \o When(~Truthy(GetN(details, S("description"))),
            "Operation " \o label \o " missing description.")
       \o When(~Truthy(GetN(details, S("tags"))),
            "Operation " \o label \o " missing tags for grouping.")
       \o When(GetN(details, S("deprecated")) = B(TRUE),
            "Operation " \o label
            \o " is deprecated - consider adding migration info."))

\* lines 365-371
BodyConsistency(path, method, details) ==
    LET method_lower == Lower(method.s)
        has_body == HasKey(details, S("requestBody"))
    IN  Ok(IF method_lower = "get" /\ has_body
           THEN <<"GET operation " \o Str(path) \o " should not have requestBody.">>
           ELSE IF method_lower \in {"post", "put", "patch"} /\ ~has_body
           THEN <<Upper(method.s) \o " operation " \o Str(path)
                  \o " should have requestBody.">>
           ELSE IF method_lower = "delete" /\ has_body
           THEN <<"DELETE operation " \o Str(path)
                  \o " typically should not have requestBody.">>
           ELSE <<>>)

\* lines 373-374 with the test the other way round: find(...) == -1
IdempotencyWhenNotFound(path, method, details) ==
    LET description == Get(details, S("description"), EmptyStr)
    IN  IF Lower(method.s) \notin {"put", "delete"} THEN Ok(<<>>)
        ELSE IF ~IsStr(description) THEN Raise("AttributeError")
        ELSE Ok(When(~SubStr("idempotent", Lower(description.s)),
                     Upper(method.s) \o " operation " \o Str(path)
                     \o " should document idempotent behavior."))

\* lines 373-374
Idempotency(path, method, details) ==
    LET description == Get(details, S("description"), EmptyStr)
    IN  IF Lower(method.s) \notin {"put", "delete"} THEN Ok(<<>>)
        ELSE IF ~IsStr(description) THEN Raise("AttributeError")
        ELSE Ok(When(SubStr("idempotent", Lower(description.s)),
                     Upper(method.s) \o " operation " \o Str(path)
                     \o " should document idempotent behavior."))

\* lines 379-397: the loop over params, with the set of (name, in) pairs seen
RECURSIVE ParameterLoop(_, _, _, _, _)
ParameterLoop(label, params, i, seen, acc) ==
    IF acc.exc # "" \/ i > Len(params) THEN acc
    ELSE LET param == params[i]
             name == GetN(param, S("name"))
             loc == GetN(param, S("in"))
             key == <<name, loc>>
             undescribed ==
                 When(~HasKey(param, S("description")),
                      "Parameter " \o Str(name) \o " in " \o Str(loc) \o " of "
                      \o label \o " missing description.")
         IN  IF ~IsDict(param) THEN ParameterLoop(label, params, i + 1, seen, acc)
             ELSE IF ~Truthy(name) \/ ~Truthy(loc)
             THEN ParameterLoop(label, params, i + 1, seen,
                      Ok(acc.sugg
                         \o <<"Parameter in " \o label \o " missing name or in.">>
                         \o undescribed))
             ELSE IF ~Hashable(name) \/ ~Hashable(loc) THEN Raise("TypeError")
             ELSE ParameterLoop(label, params, i + 1, seen \cup {key},
                      Ok(acc.sugg
                         \o When(key \in seen,
                                 "Duplicate parameter " \o Str(name) \o " in "
                                 \o Str(loc) \o " for " \o label \o ".")
                         \o undescribed))

\* lines 376-397 with a seen set that already holds the first entry's pair
ParametersSeenKept(label, details) ==
    LET params == Get(details, S("parameters"), EmptyList)
    IN  IF ~IsList(params) THEN Ok(<<>>)
        ELSE ParameterLoop(label, params.l, 1,
                 IF Len(params.l) > 0 /\ IsDict(params.l[1])
                 THEN {<<GetN(params.l[1], S("name")), GetN(params.l[1], S("in"))>>}
                 ELSE {},
                 Ok(<<>>))

\* lines 376-397
Parameters(label, details) ==
    LET params == Get(details, S("parameters"), EmptyList)
    IN  IF ~IsList(params) THEN Ok(<<>>)
        ELSE ParameterLoop(label, params.l, 1, {}, Ok(<<>>))

\* not spec.get("examples") and not spec.get("example")
LacksExamples(content_spec) ==
    /\ ~Truthy(GetN(content_spec, S("examples")))
    /\ ~Truthy(GetN(content_spec, S("example")))

\* lines 408-410, for one entry of content
BodyContentFindings(label, entry) ==
    Ok(When(IsDict(entry.v) /\ LacksExamples(entry.v),
            label \o " requestBody content " \o Str(entry.k) \o " missing examples."))

\* lines 399-410
RequestBody(label, details) ==
    LET rb == Get(details, S("requestBody"), EmptyDict)
        content == Get(rb, S("content"), EmptyDict)
    IN  IF ~HasKey(details, S("requestBody")) \/ ~IsDict(rb) THEN Ok(<<>>)
        ELSE IF ~Truthy(content)
        THEN Ok(<<label \o " requestBody has no content defined.">>)
        ELSE IF InRaises(S("application/json"), content) THEN Raise("TypeError")
        ELSE IF ~IsDict(content) THEN Raise("AttributeError")
        ELSE Join(Ok(When(~In(S("application/json"), content),
                          label \o " requestBody should include application/json content type.")),
                  Each(LAMBDA e : BodyContentFindings(label, e), content.m, 1, Ok(<<>>)))

\* any(code.startswith(prefix) for code in keys): "T", "F", or "E" when a
\* key met before the first match is not a string
RECURSIVE AnyStartsWith(_, _, _)
AnyStartsWith(keys, prefix, i) ==
    IF i > Len(keys) THEN "F"
    ELSE IF ~IsStr(keys[i]) THEN "E"
    ELSE IF StartsWith(keys[i].s, prefix) THEN "T"
    ELSE AnyStartsWith(keys, prefix, i + 1)

\* lines 440-447, for one entry of a response's content
MediaTypeFindings(code, label, entry) ==
    LET ctype == Str(entry.k)
        cval == entry.v
    IN  IF ~IsDict(cval) THEN Raise("AttributeError")
        ELSE Ok(When(~Truthy(GetN(cval, S("schema"))),
                     "Response " \o code \o " of " \o label \o " with content "
                     \o ctype \o " missing schema.")
                \o When(LacksExamples(cval),
                     "Response " \o code \o " of " \o label \o " content "
                     \o ctype \o " missing examples."))

\* lines 428-447, for one entry of responses
ResponseFindings(label, entry) ==
    LET code == Str(entry.k)
        resp_detail == entry.v
        content == Get(resp_detail, S("content"), EmptyDict)
    IN  IF ~IsDict(resp_detail) THEN Ok(<<>>)
        ELSE Join(
            Ok(When(~HasKey(resp_detail, S("description")),
                    "Response " \o code \o " of " \o label \o " missing description.")),
            IF ~IsDict(content) THEN Ok(<<>>)
            ELSE Join(
                Ok(When(~HasKey(content, S("application/json")) /\ Truthy(content),
                        "Response " \o code \o " of " \o label
                        \o " should include application/json content type.")),
                Each(LAMBDA e : MediaTypeFindings(code, label, e),
                     content.m, 1, Ok(<<>>))))

MissingSuccess(label) == "Operation " \o label \o " missing 200/201 success response."
Missing4xx(label) == "Operation " \o label \o " missing 4xx error responses."
Missing5xx(label) == "Operation " \o label \o " missing 5xx error responses."
NoResponses(label) == "Operation " \o label \o " has no responses defined."

\* "200" not in responses and "201" not in responses
LacksSuccessEither(responses) ==
    ~In(S("200"), responses) \/ ~In(S("201"), responses)
LacksSuccess(responses) ==
    ~In(S("200"), responses) /\ ~In(S("201"), responses)

\* lines 412-447
Responses(label, details) ==
    LET responses == Get(details, S("responses"), EmptyDict)
        has_4xx == AnyStartsWith(Keys(responses), "4", 1)
        has_5xx == AnyStartsWith(Keys(responses), "5", 1)
    IN  IF ~Truthy(responses) THEN Ok(<<NoResponses(label)>>)
        ELSE IF InRaises(S("200"), responses) THEN Raise("TypeError")
        ELSE IF ~IsDict(responses) THEN Raise("AttributeError")
        ELSE IF has_4xx = "E" \/ has_5xx = "E" THEN Raise("AttributeError")
        ELSE Join(Ok(When(LacksSuccess(responses), MissingSuccess(label))
                     \o When(has_4xx = "F", Missing4xx(label))
                     \o When(has_5xx = "F", Missing5xx(label))),
                  Each(LAMBDA e : ResponseFindings(label, e), responses.m, 1, Ok(<<>>)))

\* lines 449-450
OperationSecurity(label, details) ==
    Ok(When(~HasKey(details, S("security")),
            "Operation " \o label \o " missing security definition."))

\* lines 354-450: everything after the operationId check
AfterIdentity(path, method, details) ==
    LET label == Label(path, method)
    IN  Join(Documentation(label, details),
        Join(BodyConsistency(path, method, details),
        Join(Idempotency(path, method, details),
        Join(Parameters(label, details),
        Join(RequestBody(label, details),
        Join(Responses(label, details),
             OperationSecurity(label, details)))))))

(***************************************************************************)
(* The loop over the operations (lines 333-450).                            *)
(***************************************************************************)
\* every (path, method, details) of the path items that are dicts, in order
RECURSIVE Entries(_, _)
Entries(items, i) ==
    IF i > Len(items) THEN <<>>
    ELSE (IF IsDict(items[i].v)
          THEN [j \in 1..Len(items[i].v.m) |->
                   [path |-> items[i].k,
                    method |-> items[i].v.m[j].k,
                    details |-> items[i].v.m[j].v]]
          ELSE <<>>)
         \o Entries(items, i + 1)

\* whether the loop of lines 334-344 takes the entry as an operation
IsOperation(e) ==
    /\ IsStr(e.method)
    /\ Lower(e.method.s) \in HttpMethods
    /\ IsDict(e.details)

\* acc is [exc, sugg, seen, count]
RECURSIVE OperationsLoop(_, _, _)
OperationsLoop(entries, i, acc) ==
    IF acc.exc # "" \/ i > Len(entries) THEN acc
    ELSE LET e == entries[i]
             id == Identity(Label(e.path, e.method), e.details, acc.seen)
             rest == AfterIdentity(e.path, e.method, e.details)
         IN  IF ~IsStr(e.method) THEN [acc EXCEPT !.exc = "AttributeError"]
             ELSE IF ~IsOperation(e) THEN OperationsLoop(entries, i + 1, acc)
             ELSE IF id.exc # "" THEN [acc EXCEPT !.exc = id.exc]
             ELSE IF rest.exc # "" THEN [acc EXCEPT !.exc = rest.exc]
             ELSE OperationsLoop(entries, i + 1,
                      [exc |-> "",
                       sugg |-> acc.sugg \o id.sugg \o rest.sugg,
                       seen |-> id.seen,
                       count |-> acc.count + 1])

\* line 333: the set is created by the call
SharedSeenOperationIds(previous) == previous
NewSeenOperationIds(previous) == {}


(***************************************************************************)
(* Schema quality (lines 452-478).                                          *)
(***************************************************************************)
RequiredNotDefined(sname, req_field) ==
    "Schema " \o sname \o " has required field '" \o Str(req_field)
    \o "' not defined in properties."

\* lines 460-463
RequiredFindings(sname, sdef) ==
    LET required == GetN(sdef, S("required"))
        properties == Get(sdef, S("properties"), EmptyDict)
    IN  IF ~(HasKey(sdef, S("required")) /\ IsList(required)) THEN Ok(<<>>)
        ELSE Each(LAMBDA req_field :
                      IF InRaises(req_field, properties) THEN Raise("TypeError")
                      ELSE Ok(When(~In(req_field, properties),
                                   RequiredNotDefined(sname, req_field))),
                  required.l, 1, Ok(<<>>))

\* lines 467-475, for one entry of properties
PropertyFindings(sname, entry) ==
    LET prop_name == Str(entry.k)
        prop_def == entry.v
    IN  IF ~IsDict(prop_def) THEN Ok(<<>>)
        ELSE Ok(When(~HasKey(prop_def, S("description")),
                     "Schema " \o sname \o " property '" \o prop_name
                     \o "' missing description.")
                \o When(~HasKey(prop_def, S("type")) /\ ~HasKey(prop_def, S("$ref")),
                     "Schema " \o sname \o " property '" \o prop_name
                     \o "' missing type or $ref.")
                \o When(GetN(prop_def, S("nullable")) = B(TRUE)
                        /\ GetN(prop_def, S("type")) = S("null"),
                     "Schema " \o sname \o " property '" \o prop_name
                     \o "' should use nullable: true instead of type: null."))

\* lines 453-478, for one entry of schemas
SchemaFindings(entry) ==
    LET sname == Str(entry.k)
        sdef == entry.v
        properties == Get(sdef, S("properties"), EmptyDict)
    IN  IF ~IsDict(sdef) THEN Ok(<<>>)
        ELSE Join(
            Ok(When(~HasKey(sdef, S("type")) /\ ~HasKey(sdef, S("allOf"))
                    /\ ~HasKey(sdef, S("oneOf")) /\ ~HasKey(sdef, S("anyOf")),
                    "Schema " \o sname \o " missing type or composition keyword.")
               \o When(~HasKey(sdef, S("description")),
                    "Schema " \o sname \o " missing description.")),
            Join(RequiredFindings(sname, sdef),
            Join(IF IsDict(properties)
                 THEN Each(LAMBDA e : PropertyFindings(sname, e),
                           properties.m, 1, Ok(<<>>))
                 ELSE Ok(<<>>),
                 Ok(When(~HasKey(sdef, S("example")) /\ ~HasKey(sdef, S("examples")),
                         "Schema " \o sname \o " missing example or examples.")))))

SchemaQuality(doc) ==
    LET schemas == Schemas(doc)
    IN  IF ~IsDict(schemas) THEN Raise("AttributeError")
        ELSE Each(SchemaFindings, schemas.m, 1, Ok(<<>>))

(***************************************************************************)
(* Pagination and header heuristics (lines 480-520).                        *)
(***************************************************************************)
PaginationNames == {"page", "limit", "offset", "size"}

\* lines 490-493: "T" when a pagination parameter is met, "F" when none is,
\* "E" when a parameter's name met before is not a string
RECURSIVE PaginationScan(_, _)
PaginationScan(params, i) ==
    IF i > Len(params) THEN "F"
    ELSE IF ~IsDict(params[i]) THEN PaginationScan(params, i + 1)
    ELSE LET name == Get(params[i], S("name"), EmptyStr)
         IN  IF ~IsStr(name) THEN "E"
             ELSE IF Lower(name.s) \in PaginationNames THEN "T"
             ELSE PaginationScan(params, i + 1)

\* lines 487-495
Pagination(path, method, details) ==
    LET params == Get(details, S("parameters"), EmptyList)
        found == PaginationScan(Iter(params), 1)
    IN  IF Lower(method.s) # "get" THEN Ok(<<>>)
        ELSE IF ~IsStr(path) THEN Raise("AttributeError")
        ELSE IF ~(SubStr("list", Lower(path.s)) \/ SubStr("s", LastSegment(path.s, "/")))
        THEN Ok(<<>>)
        ELSE IF IterRaises(params) THEN Raise("TypeError")
        ELSE IF found = "E" THEN Raise("AttributeError")
        ELSE Ok(When(found = "F",
                     "List operation " \o Label(path, method)
                     \o " should support pagination parameters."))

\* the scan of one headers dict for a name holding one of two words
RECURSIVE HeaderScan(_, _, _, _)
HeaderScan(names, w1, w2, i) ==
    IF i > Len(names) THEN "F"
    ELSE IF ~IsStr(names[i]) THEN "E"
    ELSE IF SubStr(w1, Lower(names[i].s)) \/ SubStr(w2, Lower(names[i].s)) THEN "T"
    ELSE HeaderScan(names, w1, w2, i + 1)

\* the scan of every response (lines 499-506, 511-518)
RECURSIVE ResponsesScan(_, _, _, _, _)
ResponsesScan(entries, w1, w2, i, found) ==
    IF i > Len(entries) THEN found
    ELSE LET resp_detail == entries[i].v
             headers == Get(resp_detail, S("headers"), EmptyDict)
             one == HeaderScan(Keys(headers), w1, w2, 1)
         IN  IF ~IsDict(resp_detail) THEN ResponsesScan(entries, w1, w2, i + 1, found)
             ELSE IF ~IsDict(headers) THEN ResponsesScan(entries, w1, w2, i + 1, found)
             ELSE IF one = "E" THEN "E"
             ELSE ResponsesScan(entries, w1, w2, i + 1,
                                IF one = "T" THEN "T" ELSE found)

\* lines 497-520
Headers(path, method, details) ==
    LET responses == Get(details, S("responses"), EmptyDict)
        has_rate_limit == ResponsesScan(responses.m, "rate", "limit", 1, "F")
        has_cache_headers == ResponsesScan(responses.m, "cache", "etag", 1, "F")
    IN  IF ~IsDict(responses) THEN Raise("AttributeError")
        ELSE IF has_rate_limit = "E" \/ has_cache_headers = "E"
        THEN Raise("AttributeError")
        ELSE Ok(When(has_rate_limit = "F",
                     "Operation " \o Label(path, method)
                     \o " should document rate limiting headers.")
                \o When(has_cache_headers = "F" /\ Lower(method.s) = "get",
                     "GET operation " \o Str(path)
                     \o " should document caching headers."))

\* lines 483-520, for one entry of a path item
HeuristicFindings(e) ==
    IF ~IsDict(e.details) THEN Ok(<<>>)
    ELSE IF ~IsStr(e.method) THEN Raise("AttributeError")
    ELSE Join(Pagination(e.path, e.method, e.details),
              Headers(e.path, e.method, e.details))

Heuristics(doc) == Each(HeuristicFindings, Entries(Paths(doc).m, 1), 1, Ok(<<>>))

(***************************************************************************)
(* The result (lines 522-532).                                              *)
(***************************************************************************)
Success(doc, count, sugg) ==
    [status |-> "success",
     is_valid |-> TRUE,
     summary |->
        [openapi_version |->
            IF Truthy(OpenapiVersion(doc)) THEN S(Str(OpenapiVersion(doc))) ELSE None,
         paths_count |-> IF IsDict(Paths(doc)) THEN Len(Paths(doc).m) ELSE 0,
         operations_count |-> count,
         schemas_count |-> IF IsDict(Schemas(doc)) THEN Len(Schemas(doc).m) ELSE 0],
     suggestions |-> sugg]

\* an exception leaving analyze_openapi_spec: the caller gets no result
Raised(e) == [status |-> "raised", exc |-> e]

NoResult == [status |-> "running"]

\* no request made
NoResponse == [t |-> "none"]


(***************************************************************************)
(* The documents the model analyses.  A document is built from one choice  *)
(* per top-level key; Absent stands for a key that is not there.  Each      *)
(* family varies one part of the tree around the end-to-end document of    *)
(* the specification and puts values of the wrong type where the checks     *)
(* read.                                                                    *)
(***************************************************************************)
Absent == [t |-> "absent"]
Opt(k, v) == IF v = Absent THEN <<>> ELSE <<E(k, v)>>

Doc(openapi, info, servers, security, components, paths) ==
    D(Opt("openapi", openapi) \o Opt("info", info) \o Opt("servers", servers)
      \o Opt("security", security) \o Opt("components", components)
      \o Opt("paths", paths))

OkResponse == D(<<E("description", S("ok"))>>)
BaseResponses == D(<<E("200", OkResponse)>>)
BaseOperation ==
    D(<<E("operationId", S("listItems")), E("responses", BaseResponses)>>)
BaseInfo == D(<<E("title", S("T"))>>)
BasePaths == D(<<E("/items", D(<<E("get", BaseOperation)>>))>>)

\* the end-to-end document of the specification
ScenarioDoc == Doc(S("3.0.0"), BaseInfo, Absent, Absent, Absent, BasePaths)

FullInfo ==
    D(<<E("title", S("T")), E("description", S("d")), E("version", S("1"))>>)

InfoChoices ==
    {Absent, EmptyDict, BaseInfo, FullInfo, None, S("T"), L(<<S("T")>>),
     D(<<E("title", S("")), E("x-id", I(7))>>)}

ServersChoices ==
    {Absent, EmptyList, I(5), S("x"), B(TRUE),
     L(<<D(<<E("url", S("https://h"))>>)>>),
     L(<<D(<<E("url", S("https://{h}/v1"))>>), S("x")>>),
     L(<<D(<<E("url", I(5))>>)>>),
     L(<<D(<<E("url", L(<<S("{")>>))>>)>>)}

SecurityChoices == {Absent, L(<<D(<<E("key", EmptyList)>>)>>)}

ComponentsChoices ==
    {Absent, EmptyDict, None, S("x"), L(<<S("x")>>),
     D(<<E("schemas", S("x"))>>),
     D(<<E("schemas", None)>>),
     D(<<E("schemas", L(<<S("x")>>))>>),
     D(<<E("securitySchemes", EmptyDict)>>),
     D(<<E("securitySchemes", S("x"))>>),
     D(<<E("securitySchemes",
           D(<<E("key", D(<<E("type", S("apiKey"))>>)),
               E("auth", D(<<E("type", S("oauth2")), E("description", S("d"))>>)),
               E("bad", S("x"))>>))>>)}

PathsChoices ==
    {Absent, S("abc"), S(""), None, L(<<S("/items")>>), I(5), EmptyDict,
     D(<<E("items/", EmptyDict), E("/a/", EmptyDict), E("/", EmptyDict),
         E("items", EmptyDict), E("/u/{i d}/{ok_1}/{}", EmptyDict),
         [k |-> I(5), v |-> EmptyDict]>>),
     D(<<[k |-> I(5), v |-> D(<<E("get", BaseOperation)>>)]>>),
     D(<<E("/items", D(<<[k |-> I(5), v |-> BaseOperation]>>))>>)}

OpenapiChoices == {Absent, S("3.0.0"), I(3)}

\* a document with findings of every check
EveryCheckDoc ==
    Doc(S("3.0.0"), BaseInfo, Absent, Absent,
        D(<<E("schemas", D(<<E("Item", EmptyDict)>>))>>),
        D(<<E("items/", D(<<E("get", D(<<E("operationId", S("a"))>>)),
                            E("POST", D(<<E("operationId", S("a"))>>))>>)),
            E("/a", D(<<E("get", D(<<E("operationId", S("b"))>>))>>))>>))

MetaDocs ==
    {Doc(o, BaseInfo, Absent, Absent, Absent, BasePaths) : o \in OpenapiChoices}
    \cup {Doc(S("3.0.0"), i, Absent, Absent, Absent, BasePaths) : i \in InfoChoices}
    \cup {Doc(S("3.0.0"), BaseInfo, s, Absent, Absent, BasePaths) : s \in ServersChoices}
    \cup {Doc(S("3.0.0"), BaseInfo, Absent, s, Absent, BasePaths) : s \in SecurityChoices}
    \cup {Doc(S("3.0.0"), BaseInfo, Absent, Absent, c, BasePaths) : c \in ComponentsChoices}
    \cup {Doc(S("3.0.0"), i, Absent, Absent, Absent, p) :
              i \in {Absent, BaseInfo}, p \in PathsChoices}
    \cup {D(<<E("swagger", S("2.0"))>>), EmptyDict, EveryCheckDoc}

(***************************************************************************)
(* One operation under /items, one key of it varied at a time.              *)
(***************************************************************************)
JsonMedia ==
    D(<<E("schema", D(<<E("type", S("object"))>>)), E("example", S("e"))>>)

ResponsesChoices ==
    {Absent, EmptyDict, None, S("200"), L(<<S("200")>>), I(5),
     BaseResponses,
     D(<<E("204", OkResponse)>>),
     D(<<E("204", OkResponse), E("201", OkResponse)>>),
     D(<<E("201", OkResponse), E("404", OkResponse), E("500", OkResponse)>>),
     D(<<E("404", OkResponse), [k |-> I(500), v |-> OkResponse]>>),
     D(<<[k |-> I(204), v |-> OkResponse]>>),
     D(<<E("200", S("ok")), E("default", EmptyDict)>>),
     D(<<E("200", D(<<E("content", D(<<E("application/json", JsonMedia)>>))>>))>>),
     D(<<E("200", D(<<E("content", D(<<E("text/plain", EmptyDict)>>))>>))>>),
     D(<<E("200", D(<<E("content", D(<<E("application/json", S("x"))>>))>>))>>),
     D(<<E("200", D(<<E("content", S("x"))>>))>>),
     D(<<E("200", D(<<E("headers", D(<<E("X-RateLimit-Limit", EmptyDict)>>))>>))>>),
     D(<<E("200", D(<<E("headers", D(<<E("ETag", EmptyDict),
                                      [k |-> I(5), v |-> EmptyDict]>>))>>))>>),
     D(<<E("200", D(<<E("headers", S("x"))>>))>>)}

OperationChoices ==
    {BaseOperation, EmptyDict}
    \cup {D(<<E("operationId", S("op")), E("responses", r)>>) :
              r \in ResponsesChoices \ {Absent}}
    \cup {D(<<E("operationId", S("op"))>>)}
    \cup {D(<<E("operationId", S("op")), E(kv[1], kv[2]),
              E("responses", BaseResponses)>>) :
              kv \in {<<"description", S("This call is Idempotent.")>>,
                      <<"description", S("plain")>>,
                      <<"description", I(5)>>,
                      <<"description", None>>,
                      <<"description", L(<<S("idempotent")>>)>>,
                      <<"summary", S("s")>>,
                      <<"tags", L(<<S("t")>>)>>,
                      <<"tags", EmptyList>>,
                      <<"deprecated", B(TRUE)>>,
                      <<"deprecated", S("true")>>,
                      <<"security", EmptyList>>,
                      <<"parameters", I(5)>>,
                      <<"parameters", None>>,
                      <<"parameters", S("page")>>,
                      <<"parameters", D(<<E("name", S("page"))>>)>>,
                      <<"parameters", L(<<S("x"),
                          D(<<E("name", S("Page")), E("in", S("query"))>>)>>)>>,
                      <<"parameters", L(<<D(<<E("name", I(5)), E("in", S("query"))>>)>>)>>,
                      <<"parameters", L(<<D(<<E("name", L(<<S("id")>>)),
                                              E("in", S("query"))>>)>>)>>,
                      <<"parameters", L(<<D(<<E("in", S("query")),
                                              E("description", S("d"))>>)>>)>>,
                      <<"parameters", L(<<
                          D(<<E("name", S("id")), E("in", S("path"))>>),
                          D(<<E("name", S("id")), E("in", S("path")),
                              E("description", S("d"))>>),
                          D(<<E("name", S("id")), E("in", S("query"))>>)>>)>>,
                      <<"requestBody", EmptyDict>>,
                      <<"requestBody", S("x")>>,
                      <<"requestBody", D(<<E("content", I(5))>>)>>,
                      <<"requestBody", D(<<E("content", S("x"))>>)>>,
                      <<"requestBody", D(<<E("content", L(<<S("application/json")>>))>>)>>,
                      <<"requestBody", D(<<E("content",
                          D(<<E("application/json", JsonMedia)>>))>>)>>,
                      <<"requestBody", D(<<E("content",
                          D(<<E("text/plain", EmptyDict), E("x", S("x"))>>))>>)>>}}
    \cup {D(<<E("operationId", id), E("responses", BaseResponses)>>) :
              id \in {S(""), I(7), L(<<S("op")>>)}}

MethodChoices == {"get", "GET", "put", "PUT", "delete", "post", "x-ext"}

OperationDocs ==
    {Doc(S("3.0.0"), FullInfo, Absent, Absent, Absent,
         D(<<E("/items", D(<<E(m, op)>>))>>)) :
        m \in MethodChoices, op \in OperationChoices}
    \cup {Doc(S("3.0.0"), FullInfo, Absent, Absent, Absent,
              D(<<E("/a", D(<<E("put", D(<<E("responses", D(<<E("204", OkResponse)>>))>>))>>)),
                  E("/b", D(<<E("put", D(<<E("responses",
                      D(<<E("204", OkResponse), E("201", OkResponse)>>))>>))>>))>>))}

(***************************************************************************)
(* Path items and method keys: two paths, three method keys each, at most   *)
(* MaxEntries entries in all.                                               *)
(***************************************************************************)
OperationA == D(<<E("operationId", S("a"))>>)
OperationB == D(<<E("operationId", S("b"))>>)

EntryChoices == {Absent, OperationA, OperationB, S("x")}

PathItemChoices ==
    {Absent, S("x")}
    \cup {D(Opt("get", g) \o Opt("POST", p) \o Opt("x-ext", x)) :
              g \in EntryChoices, p \in EntryChoices, x \in EntryChoices}

Size(item) == IF IsDict(item) THEN Len(item.m) ELSE 0

StructureDocs ==
    {Doc(S("3.0.0"), FullInfo, Absent, Absent, Absent,
         D(Opt("/items", pq[1]) \o Opt("/a", pq[2]))) :
        pq \in {x \in PathItemChoices \X PathItemChoices :
                    Size(x[1]) + Size(x[2]) <= MaxEntries}}

(***************************************************************************)
(* One schema under components.schemas.                                     *)
(***************************************************************************)
FieldChoices == {S("id"), S("nm")}

RequiredChoices ==
    {Absent, S("id"), L(<<I(1)>>), L(<<L(<<S("id")>>)>>)}
    \cup {L(r) : r \in UNION {[1..n -> FieldChoices] : n \in 0..MaxRequired}}

Described == D(<<E("type", S("string")), E("description", S("d"))>>)

PropertiesChoices ==
    {Absent, EmptyDict, None, I(5), S("id"), L(<<S("id")>>),
     D(<<E("id", Described)>>),
     D(<<E("nm", EmptyDict), E("id", S("x")),
         E("n", D(<<E("nullable", B(TRUE)), E("type", S("null"))>>))>>)}

SchemaChoices ==
    {S("x"), EmptyDict}
    \cup {D(<<E("type", S("object")), E("description", S("d"))>>
            \o Opt("required", r) \o Opt("properties", p)
            \o <<E("example", EmptyDict)>>) :
              r \in RequiredChoices, p \in PropertiesChoices}

SchemaDocs ==
    {Doc(S("3.0.0"), FullInfo, Absent, Absent,
         D(<<E("schemas", D(<<E("Item", s)>>))>>), Absent) : s \in SchemaChoices}
    \cup {Doc(S("3.0.0"), FullInfo, Absent, Absent,
              D(<<E("schemas",
                    D(<<E("A", D(<<E("required", L(<<S("id")>>))>>)),
                        E("B", D(<<E("allOf", EmptyList),
                                   E("required", L(<<S("id"), S("nm")>>)),
                                   E("properties", D(<<E("id", Described)>>))>>))>>))>>),
              BasePaths)}

(***************************************************************************)
(* The version keys: openapi and swagger, present or not, truthy or not.    *)
(***************************************************************************)
VersionDocs ==
    {D(Opt("openapi", o) \o Opt("swagger", s)) :
        o \in {Absent, S("3.1.0"), S(""), I(0), None},
        s \in {Absent, S("2.0"), I(2), S("")}}

(***************************************************************************)
(* Parameter lists: up to MaxParams entries on GET /items, and one more     *)
(* operation, under the same path or another, that carries (id, path) too.  *)
(***************************************************************************)
Param(name, loc) == D(Opt("name", name) \o Opt("in", loc))

ParamChoices ==
    {Param(S("id"), S("path")), Param(S("id"), S("query")),
     Param(Absent, S("path")), Param(S("id"), Absent), S("x")}

ParamLists == UNION {[1..n -> ParamChoices] : n \in 0..MaxParams}

WithParams(params) ==
    D(<<E("operationId", S("a")), E("parameters", L(params))>>)

OtherOperation ==
    D(<<E("operationId", S("b")),
        E("parameters", L(<<Param(S("id"), S("path"))>>))>>)

ParameterDocs ==
    {Doc(S("3.0.0"), FullInfo, Absent, Absent, Absent, paths) :
        paths \in UNION {
            {D(<<E("/items", D(<<E("get", WithParams(ps))>>))>>),
             D(<<E("/items", D(<<E("get", WithParams(ps)),
                                 E("POST", OtherOperation)>>))>>),
             D(<<E("/items", D(<<E("get", WithParams(ps))>>)),
                 E("/a", D(<<E("get", OtherOperation)>>))>>)} :
            ps \in ParamLists}}

Docs ==
    MetaDocs \cup OperationDocs \cup StructureDocs \cup SchemaDocs \cup VersionDocs
        \cup ParameterDocs

\* the documents of the runs that make several calls
CallDocs ==
    {ScenarioDoc,
     Doc(S("3.0.0"), FullInfo, Absent, Absent, Absent,
         D(<<E("/items", D(<<E("get", OperationA), E("POST", OperationA)>>)),
             E("/a", D(<<E("get", OperationB)>>))>>)),
     Doc(S("3.0.0"), FullInfo, Absent, Absent, Absent,
         D(<<E("/a", D(<<E("get", OperationB)>>))>>)),
     Doc(Absent, Absent, Absent, Absent, Absent, S("abc"))}


(***************************************************************************)
(* analyze_openapi_spec, one action per block of the function.              *)
(***************************************************************************)
Init ==
    /\ spec \in Docs
    /\ given = spec
    /\ validator \in ValidatorOutcomes
    /\ pc = "validate"
    /\ suggestions = <<>>
    /\ operations_count = 0
    /\ seen_operation_ids = {}
    /\ result = NoResult
    /\ log = <<>>
    /\ resp = NoResponse
    /\ repo_info = None
    /\ openapi_files = <<>>
    /\ file_index = 0
    /\ analysis_results = <<>>
    /\ repo_result = NoResult

\* the exception leaves the function: the call is over
Throw(e) ==
    /\ pc' = "raised"
    /\ result' = Raised(e)
    /\ log' = Append(log, [doc |-> given, result |-> Raised(e)])

\* a block that puts the findings of check r in front of the list
BlockPrepend(here, next, r) ==
    /\ pc = here
    /\ IF r.exc = ""
       THEN /\ suggestions' = r.sugg \o suggestions
            /\ pc' = next
            /\ UNCHANGED <<result, log>>
       ELSE /\ Throw(r.exc)
            /\ UNCHANGED suggestions

\* a block that appends the findings of check r, or raises
Block(here, next, r) ==
    /\ pc = here
    /\ IF r.exc = ""
       THEN /\ suggestions' = suggestions \o r.sugg
            /\ pc' = next
            /\ UNCHANGED <<result, log>>
       ELSE /\ Throw(r.exc)
            /\ UNCHANGED suggestions

\* lines 259-261
Validate ==
    /\ pc = "validate"
    /\ suggestions' = <<>> \o _validate_with_openapi_spec_validator(validator)
    /\ pc' = "metadata"
    /\ UNCHANGED <<spec, given, validator, operations_count, seen_operation_ids,
                   result, log>>
    /\ UNCHANGED caller

\* lines 263-269
CheckMetadata ==
    /\ Block("metadata", "servers", Metadata(spec))
    /\ UNCHANGED <<spec, given, validator, operations_count, seen_operation_ids>>
    /\ UNCHANGED caller

\* lines 271-284
CheckServers ==
    /\ Block("servers", "security", Servers(spec))
    /\ spec' = SpecAfterLookups(spec)
    /\ UNCHANGED <<given, validator, operations_count, seen_operation_ids>>
    /\ UNCHANGED caller

\* lines 286-311
CheckSecurity ==
    /\ Block("security", "paths", Security(spec))
    /\ UNCHANGED <<spec, given, validator, operations_count, seen_operation_ids>>
    /\ UNCHANGED caller

\* lines 313-325
CheckPaths ==
    /\ Block("paths", "count", PathConventions(spec))
    /\ UNCHANGED <<spec, given, validator, operations_count, seen_operation_ids>>
    /\ UNCHANGED caller

\* lines 327-332
CountOperations ==
    /\ pc = "count"
    /\ LET sum == SumOperations(Paths(spec).m, 1)
       IN  IF sum.exc = ""
           THEN /\ operations_count' = sum.n
                /\ pc' = "operations"
                /\ UNCHANGED <<result, log>>
           ELSE /\ Throw(sum.exc)
                /\ UNCHANGED operations_count
    /\ UNCHANGED <<spec, given, validator, suggestions, seen_operation_ids>>
    /\ UNCHANGED caller

\* lines 333-450
CheckOperations ==
    /\ pc = "operations"
    /\ LET loop == OperationsLoop(Entries(Paths(spec).m, 1), 1,
                       [exc |-> "", sugg |-> <<>>,
                        seen |-> NewSeenOperationIds(seen_operation_ids),
                        count |-> operations_count])
       IN  IF loop.exc = ""
           THEN /\ suggestions' = suggestions \o loop.sugg
                /\ operations_count' = loop.count
                /\ seen_operation_ids' = loop.seen
                /\ pc' = "schemas"
                /\ UNCHANGED <<result, log>>
           ELSE /\ Throw(loop.exc)
                /\ UNCHANGED <<suggestions, operations_count, seen_operation_ids>>
    /\ UNCHANGED <<spec, given, validator>>
    /\ UNCHANGED caller

\* lines 452-478
CheckSchemas ==
    /\ Block("schemas", "heuristics", SchemaQuality(spec))
    /\ UNCHANGED <<spec, given, validator, operations_count, seen_operation_ids>>
    /\ UNCHANGED caller

\* lines 480-520
CheckHeuristics ==
    /\ Block("heuristics", "return", Heuristics(spec))
    /\ UNCHANGED <<spec, given, validator, operations_count, seen_operation_ids>>
    /\ UNCHANGED caller

\* lines 522-532
Return ==
    /\ pc = "return"
    /\ result' = Success(spec, operations_count, suggestions)
    /\ log' = Append(log, [doc |-> given, result |-> result'])
    /\ pc' = "done"
    /\ UNCHANGED <<spec, given, validator, suggestions, operations_count,
                   seen_operation_ids>>
    /\ UNCHANGED caller

Next ==
    \/ Validate
    \/ CheckMetadata
    \/ CheckServers
    \/ CheckSecurity
    \/ CheckPaths
    \/ CountOperations
    \/ CheckOperations
    \/ CheckSchemas
    \/ CheckHeuristics
    \/ Return

Spec == Init /\ [][Next]_vars

(***************************************************************************)
(* Several calls, one after the other, in one process.                      *)
(***************************************************************************)
InitCalls ==
    /\ spec \in CallDocs
    /\ given = spec
    /\ validator \in ValidatorOutcomes
    /\ pc = "validate"
    /\ suggestions = <<>>
    /\ operations_count = 0
    /\ seen_operation_ids = {}
    /\ result = NoResult
    /\ log = <<>>
    /\ resp = NoResponse
    /\ repo_info = None
    /\ openapi_files = <<>>
    /\ file_index = 0
    /\ analysis_results = <<>>
    /\ repo_result = NoResult

\* the caller calls analyze_openapi_spec again, with any document
Call ==
    /\ pc \in {"done", "raised"}
    /\ Len(log) < MaxCalls
    /\ \E d \in CallDocs : spec' = d /\ given' = d
    /\ pc' = "validate"
    /\ result' = NoResult
    /\ UNCHANGED <<validator, suggestions, operations_count, seen_operation_ids, log>>
    /\ UNCHANGED caller

NextCalls == Next \/ Call

SpecCalls == InitCalls /\ [][NextCalls]_vars


(***************************************************************************)
(* Fetched bytes.  json.loads and yaml.safe_load are library calls: the     *)
(* bytes of a response are described by what each parser makes of them, a   *)
(* value or its decode error.                                               *)
(***************************************************************************)
JSONDecodeError == [t |-> "JSONDecodeError"]
YAMLError == [t |-> "YAMLError", msg |-> "could not find expected ':'"]

JsonText(v) == [json |-> v, yaml |-> v]
YamlText(v) == [json |-> JSONDecodeError, yaml |-> v]
Garbage == [json |-> JSONDecodeError, yaml |-> YAMLError]

RequestException(msg) == [t |-> "RequestException", msg |-> msg]
Fetched(content) == [t |-> "ok", content |-> content]

FailedToParse(e) == "Failed to parse as JSON or YAML: " \o e.msg
NotAnObject == "OpenAPI content is not a valid JSON/YAML object."

\* lines 171-189: (spec or None, the parse notes)
_load_openapi_from_bytes(data) ==
    LET failed == data.json = JSONDecodeError /\ data.yaml.t = "YAMLError"
        loaded == IF data.json # JSONDecodeError THEN data.json
                  ELSE IF data.yaml.t = "YAMLError" THEN None
                  ELSE data.yaml
        notes == IF failed THEN <<FailedToParse(data.yaml)>> ELSE <<>>
    IN  IF ~IsDict(loaded)
        THEN [spec |-> None, suggestions |-> notes \o <<NotAnObject>>]
        ELSE [spec |-> loaded, suggestions |-> notes]

(***************************************************************************)
(* analyze_openapi_url: fetch, load, then the same checks (lines 549-820    *)
(* repeat lines 261-532 word for word).                                     *)
(***************************************************************************)
\* line 535: the list is never appended to
errors == <<>>

FetchFailed(e) ==
    [status |-> "error", errors |-> <<"Failed to fetch URL: " \o e.msg>>,
     is_valid |-> FALSE]

NoSpec == [status |-> "error", errors |-> errors, is_valid |-> FALSE]

\* a document whose checks raise
RaisingDoc == Doc(S("3.0.0"), S("T"), Absent, Absent, Absent, BasePaths)

NotMappings == {L(<<S("/items")>>), S("abc"), I(5), None}

UrlResponses ==
    {RequestException("timeout")}
    \cup {Fetched(YamlText(d)) : d \in MetaDocs \cup VersionDocs}
    \cup {Fetched(JsonText(d)) : d \in {ScenarioDoc, RaisingDoc, EmptyDict}}
    \cup {Fetched(JsonText(v)) : v \in NotMappings}
    \cup {Fetched(YamlText(v)) : v \in NotMappings}
    \cup {Fetched(Garbage)}

InitUrl ==
    /\ resp \in UrlResponses
    /\ spec = None
    /\ given = None
    /\ validator \in ValidatorOutcomes
    /\ pc = "fetch"
    /\ suggestions = <<>>
    /\ operations_count = 0
    /\ seen_operation_ids = {}
    /\ result = NoResult
    /\ log = <<>>
    /\ repo_info = None
    /\ openapi_files = <<>>
    /\ file_index = 0
    /\ analysis_results = <<>>
    /\ repo_result = NoResult

\* lines 535-547
FetchUrl ==
    /\ pc = "fetch"
    /\ IF resp.t = "RequestException"
       THEN /\ result' = FetchFailed(resp)
            /\ pc' = "done"
            /\ UNCHANGED <<spec, given, suggestions>>
       ELSE LET loaded == _load_openapi_from_bytes(resp.content)
            IN  /\ suggestions' = suggestions \o loaded.suggestions
                /\ IF ~Truthy(loaded.spec)
                   THEN /\ result' = NoSpec
                        /\ pc' = "done"
                        /\ UNCHANGED <<spec, given>>
                   ELSE /\ spec' = loaded.spec
                        /\ given' = loaded.spec
                        /\ pc' = "url_validate"
                        /\ UNCHANGED result
    /\ UNCHANGED <<validator, operations_count, seen_operation_ids, log>>
    /\ UNCHANGED caller

\* line 549 left out: the URL engine without the structural validator
ValidateUrlSkipped ==
    /\ pc = "url_validate"
    /\ pc' = "metadata"
    /\ UNCHANGED <<spec, given, validator, suggestions, operations_count,
                   seen_operation_ids, result, log>>
    /\ UNCHANGED caller

\* line 549
ValidateUrl ==
    /\ pc = "url_validate"
    /\ suggestions' = suggestions \o _validate_with_openapi_spec_validator(validator)
    /\ pc' = "metadata"
    /\ UNCHANGED <<spec, given, validator, operations_count, seen_operation_ids,
                   result, log>>
    /\ UNCHANGED caller

NextUrl ==
    \/ FetchUrl
    \/ ValidateUrl
    \/ CheckMetadata
    \/ CheckServers
    \/ CheckSecurity
    \/ CheckPaths
    \/ CountOperations
    \/ CheckOperations
    \/ CheckSchemas
    \/ CheckHeuristics
    \/ Return

SpecUrl == InitUrl /\ [][NextUrl]_vars

(***************************************************************************)
(* Both engines on the same bytes: analyze_openapi_url on a response, then  *)
(* analyze_openapi_spec on the mapping the loader makes of that response.   *)
(* The structural validator is a function of the document, so its outcome   *)
(* is the same in the two calls.  Each finished analysis is in log.         *)
(***************************************************************************)
BothResponses ==
    UrlResponses \cup {Fetched(YamlText(d)) : d \in Docs}

InitBoth ==
    /\ resp \in BothResponses
    /\ spec = None
    /\ given = None
    /\ validator \in ValidatorOutcomes
    /\ pc = "fetch"
    /\ suggestions = <<>>
    /\ operations_count = 0
    /\ seen_operation_ids = {}
    /\ result = NoResult
    /\ log = <<>>
    /\ repo_info = None
    /\ openapi_files = <<>>
    /\ file_index = 0
    /\ analysis_results = <<>>
    /\ repo_result = NoResult

\* the mapping the loader makes of the response, None where there is none
Parsed == IF resp.t = "ok" THEN _load_openapi_from_bytes(resp.content).spec ELSE None

\* analyze_openapi_url is over; analyze_openapi_spec(parsed mapping) is called
CallOnParsed ==
    /\ pc \in {"done", "raised"}
    /\ IsDict(Parsed)
    /\ Len(log) = IF Truthy(Parsed) THEN 1 ELSE 0
    /\ spec' = Parsed
    /\ given' = Parsed
    /\ pc' = "validate"
    /\ result' = NoResult
    /\ UNCHANGED <<validator, suggestions, operations_count, seen_operation_ids, log>>
    /\ UNCHANGED caller

NextBoth ==
    \/ FetchUrl
    \/ ValidateUrl
    \/ CallOnParsed
    \/ Validate
    \/ CheckMetadata
    \/ CheckServers
    \/ CheckSecurity
    \/ CheckPaths
    \/ CountOperations
    \/ CheckOperations
    \/ CheckSchemas
    \/ CheckHeuristics
    \/ Return

SpecBoth == InitBoth /\ [][NextBoth]_vars

(***************************************************************************)
(* analyze_repository_openapi: the repository info, the candidate files,    *)
(* then one download and one analyze_openapi_spec call per file.  A         *)
(* file_info holds the path of the file and what its download_url serves.   *)
(***************************************************************************)
RepoInfoChoices ==
    {D(<<E("error", S("Failed to fetch repository info: timeout"))>>),
     D(<<E("name", S("r")), E("full_name", S("o/r")),
         E("html_url", S("https://github.com/o/r"))>>)}

SecondDoc ==
    Doc(S("3.0.0"), FullInfo, Absent, Absent, Absent,
        D(<<E("/a", D(<<E("get", OperationB)>>))>>))

FileChoices ==
    {RequestException("timeout"),
     Fetched(JsonText(ScenarioDoc)),
     Fetched(YamlText(SecondDoc)),
     Fetched(JsonText(RaisingDoc)),
     Fetched(JsonText(EmptyDict)),
     Fetched(YamlText(S("abc"))),
     Fetched(Garbage)}

FilePath(i) == "api/v" \o IntStr(i) \o "/openapi.json"

CandidateLists ==
    UNION {{[i \in 1..n |-> [path |-> FilePath(i), remote |-> f[i]]] :
                f \in [1..n -> FileChoices]} : n \in 0..MaxFiles}

\* lines 109-117 and 157-165
Repository(info) ==
    [name |-> GetN(info, S("name")),
     full_name |-> GetN(info, S("full_name")),
     description |-> Get(info, S("description"), EmptyStr),
     url |-> GetN(info, S("html_url")),
     language |-> Get(info, S("language"), EmptyStr),
     stars |-> Get(info, S("stargazers_count"), I(0)),
     forks |-> Get(info, S("forks_count"), I(0))]

\* lines 138-139
Analysed(file_info, r) ==
    [file_info |-> file_info, status |-> r.status, is_valid |-> r.is_valid,
     summary |-> r.summary, suggestions |-> r.suggestions]

\* lines 141-146
ParseFailed(file_info, parse_suggestions) ==
    [file_info |-> file_info, status |-> "error",
     message |-> "Failed to parse OpenAPI spec",
     suggestions |-> parse_suggestions]

\* lines 148-153
DownloadFailed(file_info, e) ==
    [file_info |-> file_info, status |-> "error",
     message |-> "Failed to download file: " \o e.msg]

InitRepo ==
    /\ repo_info \in RepoInfoChoices
    /\ openapi_files \in CandidateLists
    /\ file_index = 0
    /\ analysis_results = <<>>
    /\ repo_result = NoResult
    /\ resp = NoResponse
    /\ spec = None
    /\ given = None
    /\ validator \in ValidatorOutcomes
    /\ pc = "repo_info"
    /\ suggestions = <<>>
    /\ operations_count = 0
    /\ seen_operation_ids = {}
    /\ result = NoResult
    /\ log = <<>>

\* lines 99-102
GetRepositoryInfo ==
    /\ pc = "repo_info"
    /\ IF HasKey(repo_info, S("error"))
       THEN /\ repo_result' = [status |-> "error",
                               message |-> GetN(repo_info, S("error"))]
            /\ pc' = "repo_done"
       ELSE /\ pc' = "find"
            /\ UNCHANGED repo_result
    /\ UNCHANGED <<spec, given, validator, suggestions, operations_count,
                   seen_operation_ids, result, log, resp, repo_info,
                   openapi_files, file_index, analysis_results>>

\* lines 105-124
FindFiles ==
    /\ pc = "find"
    /\ IF openapi_files = <<>>
       THEN /\ repo_result' = [status |-> "success",
                               repository |-> Repository(repo_info),
                               openapi_files |-> <<>>,
                               message |-> "No OpenAPI files found in repository"]
            /\ pc' = "repo_done"
            /\ UNCHANGED <<file_index, analysis_results>>
       ELSE /\ analysis_results' = <<>>
            /\ file_index' = 1
            /\ pc' = "download"
            /\ UNCHANGED repo_result
    /\ UNCHANGED <<spec, given, validator, suggestions, operations_count,
                   seen_operation_ids, result, log, resp, repo_info,
                   openapi_files>>

\* the for loop of line 125 takes the next file, or ends
NextFile ==
    IF file_index < Len(openapi_files)
    THEN file_index' = file_index + 1 /\ pc' = "download"
    ELSE pc' = "repo_return" /\ UNCHANGED file_index

\* lines 125-136 and 140-153: download and load one file; the call of
\* analyze_openapi_spec starts when the file holds a non-empty mapping
DownloadFile ==
    /\ pc = "download"
    /\ LET file_info == openapi_files[file_index]
           loaded == _load_openapi_from_bytes(file_info.remote.content)
       IN  /\ resp' = file_info.remote
           /\ IF file_info.remote.t = "RequestException"
              THEN /\ analysis_results' =
                          Append(analysis_results,
                                 DownloadFailed(file_info, file_info.remote))
                   /\ NextFile
                   /\ UNCHANGED <<spec, given, result>>
              ELSE IF Truthy(loaded.spec)
              THEN /\ spec' = loaded.spec
                   /\ given' = loaded.spec
                   /\ result' = NoResult
                   /\ pc' = "validate"
                   /\ UNCHANGED <<file_index, analysis_results>>
              ELSE /\ analysis_results' =
                          Append(analysis_results,
                                 ParseFailed(file_info, loaded.suggestions))
                   /\ NextFile
                   /\ UNCHANGED <<spec, given, result>>
    /\ UNCHANGED <<validator, suggestions, operations_count, seen_operation_ids,
                   log, repo_info, openapi_files, repo_result>>

\* lines 137-139: the call returned
CollectResult ==
    /\ pc = "done"
    /\ file_index > 0
    /\ analysis_results' =
           Append(analysis_results, Analysed(openapi_files[file_index], result))
    /\ NextFile
    /\ UNCHANGED <<spec, given, validator, suggestions, operations_count,
                   seen_operation_ids, result, log, resp, repo_info,
                   openapi_files, repo_result>>

\* line 137: the call raised, and the handler of line 148 catches only
\* requests.RequestException
Propagate ==
    /\ pc = "raised"
    /\ file_index > 0
    /\ repo_result' = Raised(result.exc)
    /\ pc' = "repo_raised"
    /\ UNCHANGED <<spec, given, validator, suggestions, operations_count,
                   seen_operation_ids, result, log, resp, repo_info,
                   openapi_files, file_index, analysis_results>>

\* lines 155-167
RepoReturn ==
    /\ pc = "repo_return"
    /\ repo_result' = [status |-> "success",
                       repository |-> Repository(repo_info),
                       openapi_files |-> analysis_results]
    /\ pc' = "repo_done"
    /\ UNCHANGED <<spec, given, validator, suggestions, operations_count,
                   seen_operation_ids, result, log, resp, repo_info,
                   openapi_files, file_index, analysis_results>>

NextRepo ==
    \/ GetRepositoryInfo
    \/ FindFiles
    \/ DownloadFile
    \/ CollectResult
    \/ Propagate
    \/ RepoReturn
    \/ Next

SpecRepo == InitRepo /\ [][NextRepo]_vars

(***************************************************************************)
(* What the claims speak of, read off the document itself.                  *)
(***************************************************************************)
\* the value at the top-level paths key, None when there is none
PathsValue(doc) == GetN(doc, S("paths"))

\* the (path, method) places under paths whose method key is an HTTP method,
\* in any case, and whose value is a mapping
QualifyingPairs(doc) ==
    LET p == PathsValue(doc)
        methods(i) == p.m[i].v
    IN  IF ~IsDict(p) THEN {}
        ELSE UNION {IF ~IsDict(methods(i)) THEN {}
                    ELSE {<<i, j>> : j \in {j \in 1..Len(methods(i).m) :
                              /\ IsStr(methods(i).m[j].k)
                              /\ Lower(methods(i).m[j].k.s) \in HttpMethods
                              /\ IsDict(methods(i).m[j].v)}} :
                    i \in 1..Len(p.m)}

PairPath(doc, ij) == PathsValue(doc).m[ij[1]].k
PairMethod(doc, ij) == PathsValue(doc).m[ij[1]].v.m[ij[2]].k
PairDetails(doc, ij) == PathsValue(doc).m[ij[1]].v.m[ij[2]].v
PairLabel(doc, ij) == Upper(PairMethod(doc, ij).s) \o " " \o Str(PairPath(doc, ij))

\* the places of sequence s holding a text that starts with prefix
Starting(s, prefix) == {i \in 1..Len(s) : StartsWith(s[i], prefix)}

Returned == pc = "done" /\ result.status = "success"

----------------------------------------------------------------------------
\* C1: at the return, operations_count is the number of (path, method) pairs
\* whose method is an HTTP method and whose value is a mapping.
C1_OperationsCountIsQualifyingPairs ==
    Returned =>
        result.summary.operations_count = Cardinality(QualifyingPairs(given))

----------------------------------------------------------------------------
\* C2: when the value of paths is a string the call does not raise, and it
\* returns paths_count 0, operations_count 0 and no finding of the path,
\* operation, pagination or header checks.
PathLevelFinding(f) ==
    \/ \E prefix \in {"Path ", "Operation ", "Duplicate ", "Parameter ",
                      "Response ", "List operation "} : StartsWith(f, prefix)
    \/ SubStr(" operation ", f)
    \/ SubStr(" requestBody ", f)

C2_StringPathsTolerated ==
    IsStr(PathsValue(given)) =>
        /\ pc # "raised"
        /\ Returned =>
              /\ result.summary.paths_count = 0
              /\ result.summary.operations_count = 0
              /\ \A i \in 1..Len(result.suggestions) :
                    ~PathLevelFinding(result.suggestions[i])

----------------------------------------------------------------------------
\* C3: whatever the types of the values in the document, the call returns a
\* status-success result and never raises.
C3_NeverRaises ==
    /\ pc # "raised"
    /\ pc = "done" => result.status = "success"

----------------------------------------------------------------------------
\* C4: the end-to-end document yields paths_count 1, operations_count 1, the
\* listed findings, a finding about the content of response 200, and no
\* duplicate-operationId finding.
ScenarioFindings ==
    {MissingDescription, MissingVersion, NoServers, NoGlobalSecurity,
     "Operation GET /items missing summary.",
     "Operation GET /items missing description.",
     "Operation GET /items missing tags for grouping.",
     "List operation GET /items should support pagination parameters.",
     "Operation GET /items missing security definition.",
     Missing4xx("GET /items"), Missing5xx("GET /items")}

C4_ScenarioResult ==
    (Returned /\ given = ScenarioDoc) =>
        /\ result.summary.paths_count = 1
        /\ result.summary.operations_count = 1
        /\ \A f \in ScenarioFindings : Count(result.suggestions, f) >= 1
        /\ Starting(result.suggestions, "Response 200 of GET /items") # {}
        /\ Starting(result.suggestions, "Duplicate operationId") = {}

----------------------------------------------------------------------------
\* C5: an operationId carried by k operations of the document gets exactly
\* k-1 'Duplicate operationId' findings naming it, and there is no other
\* such finding.
OperationIds(doc) ==
    {GetN(PairDetails(doc, ij), S("operationId")) : ij \in QualifyingPairs(doc)}
        \ {None}

Occurrences(doc, id) ==
    Cardinality({ij \in QualifyingPairs(doc) :
                    GetN(PairDetails(doc, ij), S("operationId")) = id})

C5_DuplicateOperationIds ==
    Returned =>
        /\ \A id \in {x \in OperationIds(given) : Truthy(x)} :
              Count(result.suggestions, DuplicateOperationId(id))
                  = Occurrences(given, id) - 1
        /\ \A i \in Starting(result.suggestions, "Duplicate operationId") :
              \E id \in {x \in OperationIds(given) : Truthy(x)} :
                  result.suggestions[i] = DuplicateOperationId(id)

\* an id on three operations of two paths has been reported twice
C5_Witness ==
    /\ Returned
    /\ \E id \in OperationIds(given) :
          /\ Occurrences(given, id) = 3
          /\ Count(result.suggestions, DuplicateOperationId(id)) = 2
          /\ Cardinality({ij[1] : ij \in QualifyingPairs(given)}) = 2

----------------------------------------------------------------------------
\* C6: when title, description and version are all missing (no info, or an
\* info mapping without these keys), each of the three metadata findings is
\* in the list exactly once.
AllMetadataMissing(doc) ==
    \/ ~HasKey(doc, S("info"))
    \/ /\ IsDict(GetN(doc, S("info")))
       /\ \A k \in {"title", "description", "version"} :
             ~HasKey(GetN(doc, S("info")), S(k))

C6_MetadataFindingsOnce ==
    (AllMetadataMissing(given) /\ pc \notin {"validate", "metadata"}) =>
        /\ \A f \in {MissingTitle, MissingDescription, MissingVersion} :
              Count(suggestions, f) = 1
        /\ Returned =>
              \A f \in {MissingTitle, MissingDescription, MissingVersion} :
                  Count(result.suggestions, f) = 1

C6_Witness ==
    /\ Returned
    /\ AllMetadataMissing(given)
    /\ HasKey(given, S("info"))
    /\ Count(result.suggestions, MissingVersion) = 1

----------------------------------------------------------------------------
----------------------------------------------------------------------------
\* C8: an operation whose responses have "204" as only status key gets the
\* 'missing 200/201 success response' finding; with "201" added it does not.
StatusKeys(details) ==
    IF IsDict(GetN(details, S("responses")))
    THEN {GetN(details, S("responses")).m[i].k :
              i \in 1..Len(GetN(details, S("responses")).m)}
    ELSE {}

C8_SuccessResponse ==
    Returned =>
        \A ij \in QualifyingPairs(given) :
            /\ StatusKeys(PairDetails(given, ij)) = {S("204")}
                  => Count(result.suggestions, MissingSuccess(PairLabel(given, ij))) = 1
            /\ StatusKeys(PairDetails(given, ij)) = {S("204"), S("201")}
                  => Count(result.suggestions, MissingSuccess(PairLabel(given, ij))) = 0

\* both operations in one analysed document
C8_Witness ==
    /\ Returned
    /\ \E ij \in QualifyingPairs(given) :
          StatusKeys(PairDetails(given, ij)) = {S("204")}
    /\ \E ij \in QualifyingPairs(given) :
          StatusKeys(PairDetails(given, ij)) = {S("204"), S("201")}

----------------------------------------------------------------------------
\* C9: for every schema that is a mapping with a required list, every entry
\* of required that is not a key of the schema's properties gets exactly one
\* 'required field not defined' finding, and an entry that is a key gets none.
SchemasValue(doc) ==
    IF IsDict(GetN(doc, S("components")))
    THEN GetN(GetN(doc, S("components")), S("schemas"))
    ELSE None

IsPropertyKey(sdef, field) ==
    /\ IsDict(GetN(sdef, S("properties")))
    /\ HasKey(GetN(sdef, S("properties")), field)

C9_RequiredFields ==
    (Returned /\ IsDict(SchemasValue(given))) =>
        \A i \in 1..Len(SchemasValue(given).m) :
            LET sname == Str(SchemasValue(given).m[i].k)
                sdef == SchemasValue(given).m[i].v
                required == GetN(sdef, S("required"))
            IN  (IsDict(sdef) /\ IsList(required)) =>
                    \A n \in 1..Len(required.l) :
                        Count(result.suggestions,
                              RequiredNotDefined(sname, required.l[n]))
                          = IF IsPropertyKey(sdef, required.l[n]) THEN 0
                            ELSE Count(required.l, required.l[n])

----------------------------------------------------------------------------
----------------------------------------------------------------------------
\* C11 as stated: in a returned summary paths_count is the number of keys of
\* the paths mapping (0 without one), schemas_count the number of keys of
\* components.schemas (0 without one), and openapi_version the text of the
\* value of the openapi key when the key holds a value, else that of the
\* swagger key, else null.
KeyCount(v) == IF IsDict(v) THEN Len(v.m) ELSE 0

HoldsValue(doc, k) == HasKey(doc, S(k)) /\ GetN(doc, S(k)) # None

StatedVersion(doc) ==
    IF HoldsValue(doc, "openapi") THEN S(Str(GetN(doc, S("openapi"))))
    ELSE IF HoldsValue(doc, "swagger") THEN S(Str(GetN(doc, S("swagger"))))
    ELSE None

TruthyVersion(doc) ==
    IF Truthy(GetN(doc, S("openapi"))) THEN S(Str(GetN(doc, S("openapi"))))
    ELSE IF Truthy(GetN(doc, S("swagger"))) THEN S(Str(GetN(doc, S("swagger"))))
    ELSE None

----------------------------------------------------------------------------
\* C12: in repository mode, with the repository info fetched and at least
\* one candidate file, the run returns an openapi_files list with exactly one
\* entry per candidate, in discovery order, and the entry of a file whose
\* download or parse failed has status error.
RepoStarted == ~HasKey(repo_info, S("error")) /\ openapi_files # <<>>

DownloadOrParseFailed(file_info) ==
    \/ file_info.remote.t = "RequestException"
    \/ _load_openapi_from_bytes(file_info.remote.content).spec = None

C12_OneEntryPerFile ==
    (RepoStarted /\ pc \notin {"repo_info", "find"}) =>
        /\ pc # "repo_raised"
        /\ pc = "repo_done" =>
              /\ repo_result.status = "success"
              /\ Len(repo_result.openapi_files) = Len(openapi_files)
              /\ \A i \in 1..Len(openapi_files) :
                    /\ repo_result.openapi_files[i].file_info = openapi_files[i]
                    /\ DownloadOrParseFailed(openapi_files[i])
                          => repo_result.openapi_files[i].status = "error"

----------------------------------------------------------------------------
\* C13: analyze_openapi_url never raises, and it returns a status-error
\* result only when the fetch failed or the bytes do not parse to a mapping:
\* every fetched mapping, the empty one included, gets a status-success
\* result.
ParsesToMapping(r) ==
    /\ r.t = "ok"
    /\ IsDict(IF r.content.json # JSONDecodeError THEN r.content.json
              ELSE r.content.yaml)

C13_ErrorOnlyOnFetchOrParse ==
    /\ pc # "raised"
    /\ pc = "done" => (result.status = "success" <=> ParsesToMapping(resp))
    /\ pc = "done" => result.status \in {"success", "error"}

----------------------------------------------------------------------------
\* C14: when the fetched bytes do not parse to a mapping, analyze_openapi_url
\* runs no check and returns a result with status error and is_valid false
\* that holds the parse note of the loader.
C14_ParseNoteRecorded ==
    (resp.t = "ok" /\ ~ParsesToMapping(resp) /\ pc # "fetch") =>
        /\ pc = "done"
        /\ result.status = "error"
        /\ result.is_valid = FALSE
        /\ \E i \in 1..Len(result.errors) : result.errors[i] = NotAnObject

----------------------------------------------------------------------------
\* C15: the finding list only ever grows at its end, and its findings are in
\* the order of the checks: the validator finding first, then metadata,
\* servers, security, path conventions, the operation checks operation by
\* operation in document order, the schemas, then the pagination and header
\* heuristics; the returned list is that list.  (Every earlier state of the
\* list is a prefix of the last one, so the order is read at the end of the
\* call.)
Phase(f) ==
    IF StartsWith(f, "Could not import") \/ StartsWith(f, "Spec validation:")
    THEN 0
    ELSE IF StartsWith(f, "Spec ") THEN 1
    ELSE IF StartsWith(f, "No servers") \/ StartsWith(f, "Server URL") THEN 2
    ELSE IF \E prefix \in {"No global security", "No security schemes",
                           "Security scheme", "OAuth2 security scheme",
                           "API Key security scheme"} : StartsWith(f, prefix)
    THEN 3
    ELSE IF StartsWith(f, "Path ") THEN 4
    ELSE IF StartsWith(f, "Schema ") THEN 6
    ELSE IF \E suffix \in {"should support pagination parameters.",
                           "should document rate limiting headers.",
                           "should document caching headers."} : EndsWith(f, suffix)
    THEN 7
    ELSE 5

\* the operations of the document that finding f names
Named(doc, f) ==
    {ij \in QualifyingPairs(doc) :
        \/ SubStr(PairLabel(doc, ij) \o " ", f)
        \/ SubStr(PairLabel(doc, ij) \o ".", f)
        \/ SubStr(Upper(PairMethod(doc, ij).s) \o " operation "
                      \o Str(PairPath(doc, ij)) \o " ", f)}

\* document order of two operations
NotAfter(a, b) == a[1] < b[1] \/ (a[1] = b[1] /\ a[2] <= b[2])

\* the places of the operation findings of list s, each with an operation
\* that the finding names
NamedAt(doc, s) ==
    UNION {{<<i, ij>> : ij \in Named(doc, s[i])} :
               i \in {n \in 1..Len(s) : Phase(s[n]) = 5}}

InCheckOrder(doc, s) ==
    LET at == NamedAt(doc, s)
    IN  /\ \A i \in 1..(Len(s) - 1) :
              Phase(s[i]) <= Phase(s[i + 1]) /\ Phase(s[i + 1]) # 0
        /\ \A x, y \in at : x[1] < y[1] => NotAfter(x[2], y[2])

IsPrefix(s, u) == Len(s) <= Len(u) /\ SubSeq(u, 1, Len(s)) = s

C15_AppendOnlyInOrder ==
    /\ [][IsPrefix(suggestions, suggestions')]_vars
    /\ [](pc \in {"done", "raised"} => InCheckOrder(given, suggestions))
    /\ [](Returned => result.suggestions = suggestions)

\* a returned list with findings of all eight groups and of three operations
C15_Witness ==
    /\ Returned
    /\ {Phase(result.suggestions[i]) : i \in 1..Len(result.suggestions)} = 0..7
    /\ Cardinality(UNION {Named(given, result.suggestions[i]) :
                              i \in 1..Len(result.suggestions)}) = 3

----------------------------------------------------------------------------
\* C16: whatever the validator does, the call goes on through every check
\* and returns a status-success result, and the validator contributes at
\* most one finding, in the first place of the list (none when it succeeds).
ValidatorFindings(s) == {i \in 1..Len(s) : Phase(s[i]) = 0}

ValidatorContribution ==
    pc # "validate" =>
        ValidatorFindings(suggestions) = IF validator = "valid" THEN {} ELSE {1}

C16_ValidatorNeverBlocks ==
    /\ ValidatorContribution
    /\ pc # "raised"
    /\ pc = "done" => result.status = "success"

----------------------------------------------------------------------------
\* C17: the 'No security schemes defined in components' finding is in the
\* returned list exactly when components.securitySchemes is present and is an
\* empty mapping; not when the key, or components itself, is absent.
PresentAndEmptySchemes(doc) ==
    /\ HasKey(doc, S("components"))
    /\ IsDict(GetN(doc, S("components")))
    /\ HasKey(GetN(doc, S("components")), S("securitySchemes"))
    /\ GetN(GetN(doc, S("components")), S("securitySchemes")) = EmptyDict

C17_NoSchemesOnlyWhenPresentAndEmpty ==
    Returned =>
        Count(result.suggestions, "No security schemes defined in components.")
            = IF PresentAndEmptySchemes(given) THEN 1 ELSE 0

----------------------------------------------------------------------------
\* C18: for every string key of paths, the returned list holds the 'should
\* start with /' finding exactly when the key does not start with '/' (a key
\* without any '/' included), and the trailing-slash finding exactly when the
\* key is not '/' and ends with '/'.
ShouldStartWithSlash(path) == "Path '" \o path \o "' should start with '/'."

HasTrailingSlash(path) ==
    "Path '" \o path \o "' has trailing slash - consider removing for consistency."

C18_PathKeyFindings ==
    (Returned /\ IsDict(PathsValue(given))) =>
        \A i \in 1..Len(PathsValue(given).m) :
            LET key == PathsValue(given).m[i].k
            IN  IsStr(key) =>
                    /\ Count(result.suggestions, ShouldStartWithSlash(key.s))
                          = IF StartsWith(key.s, "/") THEN 0 ELSE 1
                    /\ Count(result.suggestions, HasTrailingSlash(key.s))
                          = IF key.s # "/" /\ EndsWith(key.s, "/") THEN 1 ELSE 0

----------------------------------------------------------------------------
\* C19: the returned list holds one rate-limit-header finding for each
\* operation none of whose responses declares a header containing 'rate' or
\* 'limit', one caching-header finding for each GET operation without a
\* header containing 'cache' or 'etag', and no pagination or header finding
\* for anything that is not an operation; so there are never more rate-limit
\* findings than operations.
DeclaresHeader(details, words) ==
    LET responses == GetN(details, S("responses"))
    IN  /\ IsDict(responses)
        /\ \E i \in 1..Len(responses.m) :
              LET headers == GetN(responses.m[i].v, S("headers"))
              IN  /\ IsDict(responses.m[i].v)
                  /\ IsDict(headers)
                  /\ \E h \in 1..Len(headers.m) :
                        /\ IsStr(headers.m[h].k)
                        /\ \E w \in words : SubStr(w, Lower(headers.m[h].k.s))

RateLimitText(label) ==
    "Operation " \o label \o " should document rate limiting headers."
CachingText(path) == "GET operation " \o path \o " should document caching headers."
PaginationText(label) ==
    "List operation " \o label \o " should support pagination parameters."

HeuristicTexts(doc) ==
    UNION {{RateLimitText(PairLabel(doc, ij)), PaginationText(PairLabel(doc, ij))}
           \cup (IF Lower(PairMethod(doc, ij).s) = "get"
                 THEN {CachingText(Str(PairPath(doc, ij)))} ELSE {}) :
           ij \in QualifyingPairs(doc)}

C19_HeaderFindingsPerOperation ==
    Returned =>
        LET s == result.suggestions
            ops == QualifyingPairs(given)
            rate == {i \in 1..Len(s) :
                        EndsWith(s[i], "should document rate limiting headers.")}
        IN  /\ \A ij \in ops :
                  /\ Count(s, RateLimitText(PairLabel(given, ij)))
                        = IF DeclaresHeader(PairDetails(given, ij), {"rate", "limit"})
                          THEN 0 ELSE 1
                  /\ Lower(PairMethod(given, ij).s) = "get" =>
                        Count(s, CachingText(Str(PairPath(given, ij))))
                          = Cardinality({x \in ops :
                                /\ PairPath(given, x) = PairPath(given, ij)
                                /\ Lower(PairMethod(given, x).s) = "get"
                                /\ ~DeclaresHeader(PairDetails(given, x),
                                                   {"cache", "etag"})})
            /\ \A i \in 1..Len(s) : Phase(s[i]) = 7 => s[i] \in HeuristicTexts(given)
            /\ Cardinality(rate) <= Cardinality(ops)

----------------------------------------------------------------------------
\* C20: for every operation, the returned list holds the missing-success
\* finding when neither "200" nor "201" is a status key, the missing-4xx
\* finding when no status key starts with "4", the missing-5xx finding when
\* none starts with "5"; an operation whose responses are empty or absent
\* gets these and the 'no responses defined' finding.
NoKeyStarts(keys, digit) ==
    \A k \in keys : ~(IsStr(k) /\ StartsWith(k.s, digit))

C20_ResponseChecksUnconditional ==
    Returned =>
        \A ij \in QualifyingPairs(given) :
            LET label == PairLabel(given, ij)
                keys == StatusKeys(PairDetails(given, ij))
                s == result.suggestions
            IN  /\ (S("200") \notin keys /\ S("201") \notin keys)
                      => Count(s, MissingSuccess(label)) >= 1
                /\ NoKeyStarts(keys, "4") => Count(s, Missing4xx(label)) >= 1
                /\ NoKeyStarts(keys, "5") => Count(s, Missing5xx(label)) >= 1
                /\ keys = {} => Count(s, NoResponses(label)) >= 1

----------------------------------------------------------------------------
\* C21: in the returned list, a (name, in) pair carried by k mapping entries
\* of the parameters of one operation has exactly k-1 'Duplicate parameter'
\* findings for that operation, whatever the other operations carry; every
\* mapping entry without name or in has a 'missing name or in' finding; and
\* there is no other 'Duplicate parameter' finding.
ParamEntries(details) ==
    LET params == GetN(details, S("parameters"))
    IN  IF IsList(params)
        THEN {n \in 1..Len(params.l) : IsDict(params.l[n])}
        ELSE {}

ParamKey(details, n) ==
    <<GetN(GetN(details, S("parameters")).l[n], S("name")),
      GetN(GetN(details, S("parameters")).l[n], S("in"))>>

Keyed(details) ==
    {n \in ParamEntries(details) :
        Truthy(ParamKey(details, n)[1]) /\ Truthy(ParamKey(details, n)[2])}

Carrying(details, key) == {n \in Keyed(details) : ParamKey(details, n) = key}

DuplicateParameter(key, label) ==
    "Duplicate parameter " \o Str(key[1]) \o " in " \o Str(key[2])
        \o " for " \o label \o "."

MissingNameOrIn(label) == "Parameter in " \o label \o " missing name or in."

RECURSIVE SumOver(_, _)
SumOver(f, set) ==
    IF set = {} THEN 0
    ELSE LET x == CHOOSE y \in set : TRUE
         IN  f[x] + SumOver(f, set \ {x})

C21_DuplicateParametersPerOperation ==
    Returned =>
        LET s == result.suggestions
            ops == QualifyingPairs(given)
            extra == [ij \in ops |->
                         Cardinality(Keyed(PairDetails(given, ij)))
                           - Cardinality({ParamKey(PairDetails(given, ij), n) :
                                             n \in Keyed(PairDetails(given, ij))})]
        IN  /\ \A ij \in ops :
                  LET details == PairDetails(given, ij)
                      label == PairLabel(given, ij)
                  IN  /\ \A n \in Keyed(details) :
                            Count(s, DuplicateParameter(ParamKey(details, n), label))
                              = Cardinality(Carrying(details, ParamKey(details, n))) - 1
                      /\ Count(s, MissingNameOrIn(label))
                            = Cardinality(ParamEntries(details) \ Keyed(details))
            /\ Cardinality(Starting(s, "Duplicate parameter")) = SumOver(extra, ops)

\* one operation carries (id, path) three times and has two findings for it;
\* another operation carries the same pair once and has none
C21_Witness ==
    /\ Returned
    /\ \E a, b \in QualifyingPairs(given) :
          LET key == <<S("id"), S("path")>>
          IN  /\ a # b
              /\ Cardinality(Carrying(PairDetails(given, a), key)) = 3
              /\ Cardinality(Carrying(PairDetails(given, b), key)) = 1
              /\ Count(result.suggestions,
                       DuplicateParameter(key, PairLabel(given, a))) = 2
              /\ Count(result.suggestions,
                       DuplicateParameter(key, PairLabel(given, b))) = 0

----------------------------------------------------------------------------
\* C22: in the returned list a PUT or DELETE operation has the 'should
\* document idempotent behavior' finding exactly when its description
\* contains 'idempotent' in any letter case, and nothing else has it.
MentionsIdempotent(details) ==
    /\ IsStr(GetN(details, S("description")))
    /\ SubStr("idempotent", Lower(GetN(details, S("description")).s))

ShouldDocumentIdempotent(doc, ij) ==
    Upper(PairMethod(doc, ij).s) \o " operation " \o Str(PairPath(doc, ij))
        \o " should document idempotent behavior."

Triggering(doc) ==
    {ij \in QualifyingPairs(doc) :
        /\ Lower(PairMethod(doc, ij).s) \in {"put", "delete"}
        /\ MentionsIdempotent(PairDetails(doc, ij))}

C22_IdempotencyLiteralTrigger ==
    Returned =>
        LET s == result.suggestions
        IN  /\ \A ij \in QualifyingPairs(given) :
                  Count(s, ShouldDocumentIdempotent(given, ij))
                    = IF ij \in Triggering(given) THEN 1 ELSE 0
            /\ Cardinality({i \in 1..Len(s) :
                               EndsWith(s[i], "should document idempotent behavior.")})
                  = Cardinality(Triggering(given))

\* a PUT or DELETE operation whose description says 'Idempotent' has it
C22_Witness ==
    /\ Returned
    /\ \E ij \in Triggering(given) :
          /\ ~SubStr("idempotent", GetN(PairDetails(given, ij), S("description")).s)
          /\ Count(result.suggestions, ShouldDocumentIdempotent(given, ij)) = 1

----------------------------------------------------------------------------
\* C23: for fetched bytes that parse to a non-empty mapping,
\* analyze_openapi_url and analyze_openapi_spec on the parsed mapping end the
\* same way: the same status, is_valid, summary and ordered finding list.
BothOver == Truthy(Parsed) /\ Len(log) = 2

====
